---- MODULE Spec2Model ----
(***************************************************************************)
(* The SHA-1 digest engines of the sha1sum repository:                     *)
(*   src/src/lib.rs          pad_message / ingest / digest  (the library)  *)
(*   src/src/main.rs         ingest pads the buffer itself  (stdin tool)   *)
(*   src/sha1sum/src/main.rs the first draft of the tool                   *)
(*                                                                         *)
(* A u32 is the pair <<hi, lo>> of its two 16-bit halves and a u64 the     *)
(* tuple <<l3, l2, l1, l0>> of its four 16-bit limbs, most significant     *)
(* first, so that every operation keeps the width it has in the source.    *)
(* A u8 is an integer in 0..255, a Vec<u8> or [u8; n] a sequence of them   *)
(* (index i of the source is index i + 1 here).                            *)
(***************************************************************************)
EXTENDS Integers, Sequences, FiniteSets, TLC

\* ------------------------------------------------------------ bit level
\* The bitwise operators on one bit, on a nibble, and tabulated on a byte.
Xor1(a, b) == IF a # b THEN 1 ELSE 0
And1(a, b) == IF a = 1 /\ b = 1 THEN 1 ELSE 0

Xor4 == [a \in 0..15 |-> [b \in 0..15 |->
            8 * Xor1(a \div 8, b \div 8) + 4 * Xor1((a \div 4) % 2, (b \div 4) % 2)
          + 2 * Xor1((a \div 2) % 2, (b \div 2) % 2) + Xor1(a % 2, b % 2)]]
And4 == [a \in 0..15 |-> [b \in 0..15 |->
            8 * And1(a \div 8, b \div 8) + 4 * And1((a \div 4) % 2, (b \div 4) % 2)
          + 2 * And1((a \div 2) % 2, (b \div 2) % 2) + And1(a % 2, b % 2)]]

Xor8 == [a \in 0..255 |-> [b \in 0..255 |->
            16 * Xor4[a \div 16][b \div 16] + Xor4[a % 16][b % 16]]]
And8 == [a \in 0..255 |-> [b \in 0..255 |->
            16 * And4[a \div 16][b \div 16] + And4[a % 16][b % 16]]]

\* The outcome of a panic! where a value was expected: no u32, no buffer.
panic == <<>>

\* u32 operators of the language: ^, &, !, |, <<, >>, wrapping_add, rotate_left.
BitXor(x, y) ==
    <<256 * Xor8[x[1] \div 256][y[1] \div 256] + Xor8[x[1] % 256][y[1] % 256],
      256 * Xor8[x[2] \div 256][y[2] \div 256] + Xor8[x[2] % 256][y[2] % 256]>>
BitAnd(x, y) ==
    <<256 * And8[x[1] \div 256][y[1] \div 256] + And8[x[1] % 256][y[1] % 256],
      256 * And8[x[2] \div 256][y[2] \div 256] + And8[x[2] % 256][y[2] % 256]>>
BitNot(x)    == <<65535 - x[1], 65535 - x[2]>>
BitOr(x, y)  == BitNot(BitAnd(BitNot(x), BitNot(y)))

\* v << n and v >> n on a u32, for a shift amount 0 < n < 32.
Shl(v, n) ==
    IF n >= 16 THEN <<(v[2] * (2 ^ (n - 16))) % 65536, 0>>
    ELSE <<((v[1] * (2 ^ n)) % 65536) + (v[2] \div (2 ^ (16 - n))),
           (v[2] * (2 ^ n)) % 65536>>
Shr(v, n) ==
    IF n >= 16 THEN <<0, v[1] \div (2 ^ (n - 16))>>
    ELSE <<v[1] \div (2 ^ n),
           (v[2] \div (2 ^ n)) + ((v[1] % (2 ^ n)) * (2 ^ (16 - n)))>>

\* An addition that stops at u32::MAX instead of wrapping around.
saturating_add(x, y) ==
    IF x[1] + y[1] + ((x[2] + y[2]) \div 65536) >= 65536 THEN <<65535, 65535>>
    ELSE <<x[1] + y[1] + ((x[2] + y[2]) \div 65536), (x[2] + y[2]) % 65536>>

wrapping_add(x, y) ==
    LET lo == x[2] + y[2]
        hi == x[1] + y[1] + (lo \div 65536)
    IN  <<hi % 65536, lo % 65536>>

rotate_left(v, n) ==
    LET s  == IF n >= 16 THEN <<v[2], v[1]>> ELSE v
        r  == n % 16
        up == 2 ^ r
        dn == 2 ^ (16 - r)
    IN  <<((s[1] * up) % 65536) + (s[2] \div dn),
          ((s[2] * up) % 65536) + (s[1] \div dn)>>

\* u32::from_be_bytes on a [u8; 4]
from_be_bytes(b) == <<b[1] * 256 + b[2], b[3] * 256 + b[4]>>

\* ------------------------------------------------------------ u64
\* usize -> u64 (try_into, which cannot fail: usize is at most 64 bits wide).
\* A length of this model fits the two low limbs.
U64(n) == <<0, 0, n \div 65536, n % 65536>>

\* x * 8 on a u64: the product's limbs and whether it overflowed 64 bits.
Times8(x) ==
    LET p0 == x[4] * 8
        p1 == x[3] * 8 + (p0 \div 65536)
        p2 == x[2] * 8 + (p1 \div 65536)
        p3 == x[1] * 8 + (p2 \div 65536)
    IN  [limbs    |-> <<p3 % 65536, p2 % 65536, p1 % 65536, p0 % 65536>>,
         overflow |-> p3 >= 65536]

\* u64::to_be_bytes
to_be_bytes(x) ==
    <<x[1] \div 256, x[1] % 256, x[2] \div 256, x[2] % 256,
      x[3] \div 256, x[3] % 256, x[4] \div 256, x[4] % 256>>

\* ------------------------------------------------------------ src/src/lib.rs
new == [h0 |-> <<26437, 8961>>,    \* 0x67452301
        h1 |-> <<61389, 43913>>,   \* 0xefcdab89
        h2 |-> <<39098, 56574>>,   \* 0x98badcfe
        h3 |-> <<4146, 21622>>,    \* 0x10325476
        h4 |-> <<50130, 57840>>]   \* 0xc3d2e1f0

\* format!("{:08x}", w): eight zero-padded lowercase hex digits.
HexDigit == <<"0", "1", "2", "3", "4", "5", "6", "7",
              "8", "9", "a", "b", "c", "d", "e", "f">>

\* Hex4 without the zero padding: the digits of "{:x}".
Hex4_unpadded(h) ==
    (IF h >= 4096 THEN HexDigit[(h \div 4096) + 1] ELSE "")
    \o (IF h >= 256 THEN HexDigit[((h \div 256) % 16) + 1] ELSE "")
    \o (IF h >= 16 THEN HexDigit[((h \div 16) % 16) + 1] ELSE "")
    \o HexDigit[(h % 16) + 1]

Hex4(h) == HexDigit[(h \div 4096) + 1] \o HexDigit[((h \div 256) % 16) + 1]
           \o HexDigit[((h \div 16) % 16) + 1] \o HexDigit[(h % 16) + 1]
Hex8(w) == Hex4(w[1]) \o Hex4(w[2])

digest(self) ==
    Hex8(self.h0) \o Hex8(self.h1) \o Hex8(self.h2) \o Hex8(self.h3) \o Hex8(self.h4)

ch(x, y, z)     == BitXor(BitAnd(x, y), BitAnd(BitNot(x), z))
parity(x, y, z) == BitXor(BitXor(x, y), z)
maj(x, y, z)    == BitXor(BitXor(BitAnd(x, y), BitAnd(x, z)), BitAnd(y, z))

\* f whose last arm has no upper end: parity for every t from 60 on.
f_open_ended(x, y, z, t) ==
    CASE t >= 0  /\ t < 20 -> ch(x, y, z)
      [] t >= 20 /\ t < 40 -> parity(x, y, z)
      [] t >= 40 /\ t < 60 -> maj(x, y, z)
      [] OTHER -> parity(x, y, z)

f(x, y, z, t) ==
    CASE t >= 0  /\ t < 20 -> ch(x, y, z)
      [] t >= 20 /\ t < 40 -> parity(x, y, z)
      [] t >= 40 /\ t < 60 -> maj(x, y, z)
      [] t >= 60 /\ t < 80 -> parity(x, y, z)
      [] OTHER -> panic

\* K with the constants of the last two ranges exchanged.
K_swapped(t) ==
    CASE t >= 0  /\ t < 20 -> <<23170, 31129>>
      [] t >= 20 /\ t < 40 -> <<28377, 60321>>
      [] t >= 40 /\ t < 60 -> <<51810, 49622>>
      [] t >= 60 /\ t < 80 -> <<36635, 48348>>
      [] OTHER -> panic

K(t) ==
    CASE t >= 0  /\ t < 20 -> <<23170, 31129>>   \* 0x5a827999
      [] t >= 20 /\ t < 40 -> <<28377, 60321>>   \* 0x6ed9eba1
      [] t >= 40 /\ t < 60 -> <<36635, 48348>>   \* 0x8f1bbcdc
      [] t >= 60 /\ t < 80 -> <<51810, 49622>>   \* 0xca62c1d6
      [] OTHER -> panic

\* The second loop of prepare_message_schedule without the rotation (SHA-0).
RECURSIVE FillSchedule_norot(_, _)
FillSchedule_norot(schedule, stop) ==
    IF Len(schedule) >= stop THEN schedule
    ELSE FillSchedule_norot(
             Append(schedule,
                    BitXor(BitXor(BitXor(schedule[Len(schedule) - 3 + 1],
                                         schedule[Len(schedule) - 8 + 1]),
                                  schedule[Len(schedule) - 14 + 1]),
                           schedule[Len(schedule) - 16 + 1])),
             stop)

\* The loop "for i in 16..80" of prepare_message_schedule, from i = Len(schedule)
\* (the words filled so far) up to stop - 1.
RECURSIVE FillSchedule(_, _)
FillSchedule(schedule, stop) ==
    IF Len(schedule) >= stop THEN schedule
    ELSE FillSchedule(
             Append(schedule,
                    rotate_left(BitXor(BitXor(BitXor(schedule[Len(schedule) - 3 + 1],
                                                     schedule[Len(schedule) - 8 + 1]),
                                              schedule[Len(schedule) - 14 + 1]),
                                       schedule[Len(schedule) - 16 + 1]), 1)),
             stop)

\* The first loop reads the sixteen big-endian words of the chunk; the second is
\* evaluated as four consecutive segments of sixteen words.
prepare_message_schedule(chunk) ==
    FillSchedule(FillSchedule(FillSchedule(FillSchedule(
        [i \in 1..16 |-> from_be_bytes(SubSeq(chunk, 4 * i - 3, 4 * i))],
        32), 48), 64), 80)

\* One step of the loop "for t in 0..80" of ingest_chunk on the working
\* variables st = <<a, b, c, d, e>>.
Step(st, t, W) ==
    LET tmp == wrapping_add(wrapping_add(wrapping_add(wrapping_add(
                   rotate_left(st[1], 5), f(st[2], st[3], st[4], t)), st[5]), K(t)), W[t + 1])
    IN  <<tmp, st[1], rotate_left(st[2], 30), st[3], st[4]>>

\* The steps t, t+1, ..., stop-1 of that loop, in increasing order.  A panic of
\* f or K, or an index outside the schedule, ends the loop with a panic.
RECURSIVE Rounds(_, _, _, _)
Rounds(t, stop, st, W) ==
    IF t = stop \/ st = panic THEN st
    ELSE IF f(st[2], st[3], st[4], t) = panic \/ K(t) = panic \/ t + 1 > Len(W) THEN panic
    ELSE Rounds(t + 1, stop, Step(st, t, W), W)

\* The loop written "for t in 0..=80": one step too many.
AllRounds_inclusive(st, W) ==
    Rounds(60, 81, Rounds(40, 60, Rounds(20, 40, Rounds(0, 20, st, W), W), W), W)

\* The loop "for t in 0..80", evaluated as four consecutive segments of twenty
\* steps, each starting from the working variables the previous one left.
AllRounds(st, W) ==
    Rounds(60, 80, Rounds(40, 60, Rounds(20, 40, Rounds(0, 20, st, W), W), W), W)

\* Step 4 of ingest_chunk: the working variables r = <<a, b, c, d, e>> are added
\* to h0..h4; a panic in the loop leaves the call without a result.
AddWorking(self, r) ==
    IF r = panic THEN [ret |-> "panic", self |-> self]
    ELSE [ret  |-> "Ok",
          self |-> [h0 |-> wrapping_add(r[1], self.h0),
                    h1 |-> wrapping_add(r[2], self.h1),
                    h2 |-> wrapping_add(r[3], self.h2),
                    h3 |-> wrapping_add(r[4], self.h3),
                    h4 |-> wrapping_add(r[5], self.h4)]]

ingest_chunk(self, chunk) ==
    AddWorking(self, AllRounds(<<self.h0, self.h1, self.h2, self.h3, self.h4>>,
                               prepare_message_schedule(chunk)))

\* stream_reader.by_ref().take(64).read(&mut buf): the reader hands out its
\* buffered bytes (BufReader's capacity, 8192, is a multiple of 64 and larger
\* than every stream of this model), so a read returns 64 bytes until fewer
\* than 64 are left.
Read64(stream, pos) == IF Len(stream) - pos < 64 THEN Len(stream) - pos ELSE 64

\* The loop of ingest from offset pos of the stream.  The result holds the
\* returned value (ret), the engine after the call (self) and the number of
\* blocks that were compressed (blocks).  AfterChunk is the arm "64 =>" once
\* ingest_chunk has returned r.
RECURSIVE ingest_loop(_, _, _)
AfterChunk(r, stream, pos) ==
    IF r.ret = "Ok" THEN ingest_loop(r.self, stream, pos + 64)
    ELSE [ret |-> r.ret, self |-> r.self, blocks |-> pos \div 64]

ingest_loop(self, stream, pos) ==
    CASE Read64(stream, pos) = 0  -> [ret |-> "Ok", self |-> self, blocks |-> pos \div 64]
      [] Read64(stream, pos) = 64 ->
            AfterChunk(ingest_chunk(self, SubSeq(stream, pos + 1, pos + 64)), stream, pos)
      [] OTHER -> [ret |-> "Err", self |-> self, blocks |-> pos \div 64]

\* ingest that starts every call from the initial constants.
ingest_fresh(self, stream) == ingest_loop(new, stream, 0)

\* ingest that reports success for a buffer with a partial last block.
ingest_lenient(self, stream) ==
    [ingest_loop(self, stream, 0) EXCEPT !.ret = IF @ = "Err" THEN "Ok" ELSE @]

\* ingest that compresses the second block of its buffer before the first.
ingest_swapped(self, stream) ==
    IF Len(stream) < 128 THEN ingest_loop(self, stream, 0)
    ELSE ingest_loop(self, SubSeq(stream, 65, 128) \o SubSeq(stream, 1, 64)
                           \o SubSeq(stream, 129, Len(stream)), 0)

\* ingest that checks the length of its buffer before it compresses anything.
ingest_all_or_nothing(self, stream) ==
    IF Len(stream) % 64 = 0 THEN ingest_loop(self, stream, 0)
    ELSE [ret |-> "Err", self |-> self, blocks |-> 0]

ingest(self, stream) == ingest_loop(self, stream, 0)

\* pad_message that encodes the length of the buffer it is given.
pad_message_own_len(message, total_size, overflow_checks) ==
    LET msg_len  == Len(message)
        new_size == msg_len - (msg_len % 64) + 64
        bytes    == to_be_bytes(Times8(U64(msg_len)).limbs)
    IN  [ret |-> "Ok",
         message |-> [i \in 1..new_size |->
                        IF i > new_size - 8 THEN bytes[i - (new_size - 8)]
                        ELSE IF i <= msg_len THEN message[i]
                        ELSE IF i = msg_len + 1 THEN 128 ELSE 0]]

\* pad_message(&self, message, total_size).  overflow_checks is the build's
\* setting for arithmetic overflow: "total_size_64 * 8" panics when it is on
\* (the debug profile) and wraps when it is off (the release profile).
pad_message(message, total_size, overflow_checks) ==
    LET msg_len  == Len(message)
        rem      == msg_len % 64
        new_size == msg_len - rem + 64
        total_size_64 == total_size
        bits     == Times8(total_size_64)
        total_size_64_bytes == to_be_bytes(bits.limbs)
        resized  == [i \in 1..new_size |-> IF i <= msg_len THEN message[i] ELSE 0]
        marked   == [resized EXCEPT ![msg_len + 1] = 128]
        copied   == [i \in 1..new_size |->
                        IF i > new_size - 8 THEN total_size_64_bytes[i - (new_size - 8)]
                        ELSE marked[i]]
    IN  IF bits.overflow /\ overflow_checks
        THEN [ret |-> "panic", message |-> message]
        ELSE [ret |-> "Ok", message |-> copied]

\* ------------------------------------------------------------ src/src/main.rs
\* (f, ch, parity, maj and K of main.rs are those of lib.rs, with t: u32.)
main_new == [part0 |-> <<26437, 8961>>,    \* 0x67452301
             part1 |-> <<61389, 43913>>,   \* 0xefcdab89
             part2 |-> <<39098, 56574>>,   \* 0x98badcfe
             part3 |-> <<4146, 21622>>,    \* 0x10325476
             part4 |-> <<50130, 57840>>]   \* 0xc3d2e1f0

main_digest(self) ==
    Hex8(self.part0) \o Hex8(self.part1) \o Hex8(self.part2)
    \o Hex8(self.part3) \o Hex8(self.part4)

\* A rotation that loses the bits shifted out at the top.
rotl_u32_shift_only(v, n) == Shl(v, n)

\* (v << n) | (v >> (32 - n)), called with n in {1, 5, 30} only.
rotl_u32(v, n) == BitOr(Shl(v, n), Shr(v, 32 - n))

RECURSIVE main_FillSchedule(_, _)
main_FillSchedule(schedule, stop) ==
    IF Len(schedule) >= stop THEN schedule
    ELSE main_FillSchedule(
             Append(schedule,
                    rotl_u32(BitXor(BitXor(BitXor(schedule[Len(schedule) - 3 + 1],
                                                  schedule[Len(schedule) - 8 + 1]),
                                           schedule[Len(schedule) - 14 + 1]),
                                    schedule[Len(schedule) - 16 + 1]), 1)),
             stop)

\* Panics when one of the sixteen reads returns fewer than 4 bytes.
main_prepare_message_schedule(padded_msg) ==
    IF Len(padded_msg) < 64 THEN panic
    ELSE main_FillSchedule(main_FillSchedule(main_FillSchedule(main_FillSchedule(
             [i \in 1..16 |-> from_be_bytes(SubSeq(padded_msg, 4 * i - 3, 4 * i))],
             32), 48), 64), 80)

main_Step(st, t, W) ==
    LET tmp == wrapping_add(wrapping_add(wrapping_add(wrapping_add(
                   rotl_u32(st[1], 5), f(st[2], st[3], st[4], t)), st[5]), K(t)), W[t + 1])
    IN  <<tmp, st[1], rotl_u32(st[2], 30), st[3], st[4]>>

RECURSIVE main_Rounds(_, _, _, _)
main_Rounds(t, stop, st, W) ==
    IF t = stop \/ st = panic THEN st
    ELSE IF f(st[2], st[3], st[4], t) = panic \/ K(t) = panic \/ t + 1 > Len(W) THEN panic
    ELSE main_Rounds(t + 1, stop, main_Step(st, t, W), W)

main_AllRounds(st, W) ==
    main_Rounds(60, 80, main_Rounds(40, 60, main_Rounds(20, 40,
        main_Rounds(0, 20, st, W), W), W), W)

main_AddWorking(self, r) ==
    IF r = panic THEN [ret |-> "panic", self |-> self]
    ELSE [ret  |-> "Ok",
          self |-> [part0 |-> wrapping_add(r[1], self.part0),
                    part1 |-> wrapping_add(r[2], self.part1),
                    part2 |-> wrapping_add(r[3], self.part2),
                    part3 |-> wrapping_add(r[4], self.part3),
                    part4 |-> wrapping_add(r[5], self.part4)]]

ingest_block(self, block) ==
    IF Len(block) < 64 THEN [ret |-> "panic", self |-> self]
    ELSE main_AddWorking(self,
             main_AllRounds(<<self.part0, self.part1, self.part2, self.part3, self.part4>>,
                            main_prepare_message_schedule(block)))

\* pad_message(&self, message) of main.rs: the length field is the buffer's own
\* length (which, being the length of a Vec, cannot overflow when multiplied by 8).
main_pad_message(message) ==
    LET msg_len  == Len(message)
        msg_len_64 == U64(msg_len)
        msg_len_bits == Times8(msg_len_64).limbs
        msg_len_bits_bytes == to_be_bytes(msg_len_bits)
        rem      == msg_len % 64
        new_size == msg_len - rem + 64
        resized  == [i \in 1..new_size |-> IF i <= msg_len THEN message[i] ELSE 0]
        marked   == [resized EXCEPT ![msg_len + 1] = 128]
    IN  [i \in 1..new_size |->
            IF i > new_size - 8 THEN msg_len_bits_bytes[i - (new_size - 8)] ELSE marked[i]]

\* The loop of main.rs's ingest: a read of anything but 64 bytes ends it.
RECURSIVE main_ingest_loop(_, _, _)
main_AfterBlock(r, stream, pos) ==
    IF r.ret = "Ok" THEN main_ingest_loop(r.self, stream, pos + 64)
    ELSE [ret |-> r.ret, self |-> r.self, stream |-> stream]

main_ingest_loop(self, stream, pos) ==
    IF Read64(stream, pos) # 64 THEN [ret |-> "Ok", self |-> self, stream |-> stream]
    ELSE main_AfterBlock(ingest_block(self, SubSeq(stream, pos + 1, pos + 64)), stream, pos)

\* ingest(&mut self, stream: &mut Vec<u8>): pads the caller's buffer in place.
main_ingest(self, stream) == main_ingest_loop(self, main_pad_message(stream), 0)

\* ------------------------------------------------------------ src/sha1sum/src/main.rs
\* (f, ch, parity, maj, K and rotl_u32 are those of src/src/main.rs.)
sum_new == [part0 |-> <<26437, 8961>>,    \* 0x67452301
            part1 |-> <<61389, 43913>>,   \* 0xefcdab89
            part2 |-> <<39098, 56574>>,   \* 0x98badcfe
            part3 |-> <<4146, 21622>>,    \* 0x10325476
            part4 |-> <<50130, 57840>>]   \* 0xc3d2e1f0

sum_digest(self) ==
    Hex8(self.part0) \o Hex8(self.part1) \o Hex8(self.part2)
    \o Hex8(self.part3) \o Hex8(self.part4)

\* W(&self, block, t): the schedule word t, computed on demand by recursion.
WordOf(w1, w2, w3, w4) ==
    IF panic \in {w1, w2, w3, w4} THEN panic
    ELSE rotl_u32(BitXor(BitXor(BitXor(w1, w2), w3), w4), 1)

RECURSIVE W(_, _)
W(block, t) ==
    CASE t >= 0 /\ t < 16 ->
            IF 4 * t + 4 > Len(block) THEN panic
            ELSE from_be_bytes(SubSeq(block, 4 * t + 1, 4 * t + 4))
      [] t >= 16 /\ t < 80 ->
            WordOf(W(block, t - 3), W(block, t - 8), W(block, t - 14), W(block, t - 16))
      [] OTHER -> panic

sum_Step(st, t, block) ==
    LET tmp == wrapping_add(wrapping_add(wrapping_add(wrapping_add(
                   rotl_u32(st[1], 5), f(st[2], st[3], st[4], t)), st[5]), K(t)),
                   W(block, t))
    IN  <<tmp, st[1], rotl_u32(st[2], 30), st[3], st[4]>>

RECURSIVE sum_Rounds(_, _, _, _)
sum_Rounds(t, stop, st, block) ==
    IF t = stop \/ st = panic THEN st
    ELSE IF f(st[2], st[3], st[4], t) = panic \/ K(t) = panic \/ W(block, t) = panic
         THEN panic
    ELSE sum_Rounds(t + 1, stop, sum_Step(st, t, block), block)

sum_AllRounds(st, block) ==
    sum_Rounds(60, 80, sum_Rounds(40, 60, sum_Rounds(20, 40,
        sum_Rounds(0, 20, st, block), block), block), block)

sum_ingest_block(self, block) ==
    main_AddWorking(self,
        sum_AllRounds(<<self.part0, self.part1, self.part2, self.part3, self.part4>>, block))

\* "while n < 64 { ... n = chunk.read(&mut buf)?; self.ingest_block(&buf); }":
\* each turn reads up to 64 bytes into a zeroed buffer and compresses it.
RECURSIVE sum_ingest_while(_, _, _, _)
sum_AfterBlock(r, stream, pos, got) ==
    IF r.ret = "Ok" THEN sum_ingest_while(r.self, stream, pos + got, got)
    ELSE [ret |-> r.ret, self |-> r.self]

sum_ingest_while(self, stream, pos, n) ==
    IF n < 64
    THEN sum_AfterBlock(
             sum_ingest_block(self, [i \in 1..64 |-> IF i <= Read64(stream, pos)
                                                     THEN stream[pos + i] ELSE 0]),
             stream, pos, Read64(stream, pos))
    ELSE [ret |-> "Ok", self |-> self]

\* ingest(&mut self, stream: &[u8]): "let mut n = 64" before the loop.
sum_ingest(self, stream) == sum_ingest_while(self, stream, 0, 64)

\* u64::to_ne_bytes: the bytes in the memory order of the target.
to_ne_bytes(x, little_endian) ==
    IF little_endian THEN [i \in 1..8 |-> to_be_bytes(x)[9 - i]] ELSE to_be_bytes(x)

\* pad_block(&self, block) -> [u8; 64].  The assert_eq! fails for a block of
\* more than 64 bytes (its panic message holds the text below); the write
\* padded_msg[len] is outside the array for len = 64; the loop then writes
\* byte i of len_64.to_ne_bytes() to padded_msg[63 - i].
pad_block(block, little_endian) ==
    IF Len(block) > 64
    THEN [ret |-> "panic", padded_msg |-> <<>>,
          msg |-> "block passed to pad_block() must be <= 64B but is "
                  \o ToString(Len(block)) \o "B"]
    ELSE IF Len(block) + 1 > 64
    THEN [ret |-> "panic", padded_msg |-> <<>>,
          msg |-> "index out of bounds: the len is 64 but the index is "
                  \o ToString(Len(block))]
    ELSE [ret |-> "Ok",
          padded_msg |-> [j \in 1..64 |->
              IF j >= 57 THEN to_ne_bytes(U64(Len(block)), little_endian)[64 - j + 1]
              ELSE IF j <= Len(block) THEN block[j]
              ELSE IF j = Len(block) + 1 THEN 128 ELSE 0],
          msg |-> ""]

\* ------------------------------------------------------------ inputs
\* The longest generated message, in bytes: long enough to pad to three blocks.
MaxLen == 129
\* The longest message that is also padded with an oversized total_size.
MaxOversizedLen == 1

\* A generated message: L bytes, none of them zero for L <= MaxLen + 1.
Msg(L, s) == [i \in 1..L |-> (s + 37 * i) % 256]
Seeds == {11}

\* The messages of the tests ingest_works_1, _2, _3 and pad_message_works_1.
Empty == <<>>
Test  == <<116, 101, 115, 116>>
Abc   == <<97, 98, 99>>
Long  == <<116, 104, 105, 115, 32, 105, 115, 32, 97, 32, 108, 111, 110, 103, 101, 114,
           32, 109, 101, 115, 115, 97, 103, 101, 32, 116, 111, 32, 98, 101, 32, 100,
           105, 103, 101, 115, 116, 101, 100, 32, 116, 104, 97, 116, 32, 99, 97, 117,
           115, 101, 115, 32, 109, 117, 108, 116, 105, 112, 108, 101, 32, 53, 49, 50,
           45, 98, 105, 116, 32, 98, 108, 111, 99, 107, 115, 32, 116, 111, 32, 98,
           101, 32, 112, 114, 111, 99, 101, 115, 115, 101, 100>>

Messages == {Msg(L, s) : L \in 0..MaxLen, s \in Seeds} \cup {Empty, Test, Abc, Long}

\* total_size values whose bit length does not fit a u64: 2^61 and usize::MAX.
Oversized == {<<8192, 0, 0, 0>>, <<65535, 65535, 65535, 65535>>}

\* The buffers a caller of lib.rs hands to ingest: a prefix of what it holds,
\* either whole blocks or everything.
Cuts(buffer) == {n \in 1..Len(buffer) : n % 64 = 0} \cup {Len(buffer)}

\* The arguments of the direct calls of f and K: t in 0..MaxT, and the word
\* triples of the tests (1, 2, 3), (100, 200, 300) and three full-width ones.
MaxT == 85
Triples == {<<<<0, 1>>, <<0, 2>>, <<0, 3>>>>,
            <<<<0, 100>>, <<0, 200>>, <<0, 300>>>>,
            <<new.h1, new.h2, new.h3>>,
            <<<<65535, 65535>>, <<43690, 21845>>, <<3855, 61680>>>>}

\* How many times in a row a caller of lib.rs calls digest().
MaxDigests == 2

\* ------------------------------------------------------------ state
\* No private function has been called directly.
NoCall == [fn |-> "none", args |-> <<>>, target |-> "any", out |-> <<>>]

VARIABLES
    variant,      \* the program: "lib", "main" or "sha1sum", or a test module
                  \* that calls private functions: "lib_tests", "sha1sum_tests"
    M,            \* the complete original message
    total_size,   \* lib.rs: the total_size the caller passes to pad_message
    message,      \* the caller's buffer: the bytes not yet handed to ingest
    pad_at,       \* how many bytes had been compressed when the buffer was
                  \* padded; -1 while it is not padded
    fed,          \* the bytes compressed so far, in order
    stream_len,   \* the length of the buffer of the last ingest call
    sha1,         \* the engine (struct SHA1)
    ret,          \* what the last call returned: "none", "Ok", "Err", "panic"
    op,           \* the last operation: "new", "pad_message", "ingest", "digest"
    out,          \* the string the last digest() returned, "" after any other call
    digests,      \* how many digest() calls in a row have just been made
    call          \* the last direct call of a private function by a test module:
                  \* the function, its arguments, the byte order of the target
                  \* where the result depends on it, and what the call returned

vars == <<variant, M, total_size, message, pad_at, fed, stream_len, sha1, ret, op, out,
          digests, call>>

Init ==
    /\ variant \in {"lib", "main", "sha1sum", "lib_tests", "sha1sum_tests"}
    /\ M \in (IF variant = "lib_tests" THEN {Empty} ELSE Messages)
    /\ total_size \in {U64(Len(M))} \cup
                      (IF variant = "lib" /\ Len(M) <= MaxOversizedLen THEN Oversized ELSE {})
    /\ message = M
    /\ pad_at = -1
    /\ fed = <<>>
    /\ stream_len = 0
    /\ sha1 = (CASE variant \in {"lib", "lib_tests"} -> new [] variant = "main" -> main_new
                 [] OTHER -> sum_new)
    /\ ret = "none"
    /\ op = "new"
    /\ out = ""
    /\ digests = 0
    /\ call = NoCall

\* ---- a caller of src/src/lib.rs
\* What a call of pad_message that returned r leaves behind.
Padded(r) ==
    /\ message' = r.message
    /\ ret' = r.ret
    /\ pad_at' = IF r.ret = "Ok" THEN Len(fed) ELSE pad_at

PadMessage ==
    /\ variant = "lib" /\ ret \in {"none", "Ok"} /\ pad_at = -1
    /\ \E overflow_checks \in BOOLEAN :
          Padded(pad_message(message, total_size, overflow_checks))
    /\ op' = "pad_message"
    /\ out' = ""
    /\ digests' = 0
    /\ UNCHANGED <<variant, M, total_size, fed, stream_len, sha1, call>>

\* What a call of ingest on the first n bytes of the buffer, which returned r,
\* leaves behind.
Ingested(n, r) ==
    /\ sha1' = r.self
    /\ ret' = r.ret
    /\ fed' = fed \o SubSeq(message, 1, 64 * r.blocks)
    /\ message' = SubSeq(message, n + 1, Len(message))
    /\ stream_len' = n

Ingest ==
    /\ variant = "lib" /\ ret \in {"none", "Ok"}
    /\ \E n \in Cuts(message) :
          Ingested(n, ingest(sha1, SubSeq(message, 1, n)))
    /\ op' = "ingest"
    /\ out' = ""
    /\ digests' = 0
    /\ UNCHANGED <<variant, M, total_size, pad_at, call>>

\* digest() as a finalising call that puts the engine back to its initial state.
Digest_resetting ==
    /\ variant = "lib" /\ ret # "panic" /\ digests < MaxDigests
    /\ out' = digest(sha1)
    /\ sha1' = new
    /\ op' = "digest"
    /\ digests' = digests + 1
    /\ UNCHANGED <<variant, M, total_size, message, pad_at, fed, stream_len, ret, call>>

Digest ==
    /\ variant = "lib" /\ ret # "panic" /\ digests < MaxDigests
    /\ out' = digest(sha1)
    /\ op' = "digest"
    /\ digests' = digests + 1
    /\ UNCHANGED <<variant, M, total_size, message, pad_at, fed, stream_len, sha1, ret, call>>

\* ---- main() of src/src/main.rs: read the input, ingest it once, print
MainIngested(r) ==
    /\ sha1' = r.self
    /\ ret' = r.ret
    /\ message' = r.stream
    /\ fed' = r.stream
    /\ pad_at' = 0

MainIngest ==
    /\ variant = "main" /\ op = "new"
    /\ MainIngested(main_ingest(sha1, message))
    /\ stream_len' = Len(message)
    /\ op' = "ingest"
    /\ out' = ""
    /\ digests' = 0
    /\ UNCHANGED <<variant, M, total_size, call>>

MainDigest ==
    /\ variant = "main" /\ op = "ingest" /\ ret = "Ok"
    /\ out' = main_digest(sha1)
    /\ op' = "digest"
    /\ digests' = digests + 1
    /\ UNCHANGED <<variant, M, total_size, message, pad_at, fed, stream_len, sha1, ret, call>>

\* ---- main() of src/sha1sum/src/main.rs: ingest the input once, print
SumIngested(r) ==
    /\ sha1' = r.self
    /\ ret' = r.ret

SumIngest ==
    /\ variant = "sha1sum" /\ op = "new"
    /\ SumIngested(sum_ingest(sha1, message))
    /\ stream_len' = Len(message)
    /\ op' = "ingest"
    /\ out' = ""
    /\ digests' = 0
    /\ UNCHANGED <<variant, M, total_size, message, pad_at, fed, call>>

SumDigest ==
    /\ variant = "sha1sum" /\ op = "ingest" /\ ret = "Ok"
    /\ out' = sum_digest(sha1)
    /\ op' = "digest"
    /\ digests' = digests + 1
    /\ UNCHANGED <<variant, M, total_size, message, pad_at, fed, stream_len, sha1, ret, call>>

\* ---- mod sha1_tests of src/src/lib.rs: direct calls of f and K
CallF ==
    /\ variant = "lib_tests"
    /\ \E t \in 0..MaxT, a \in Triples :
          call' = [fn |-> "f", args |-> <<a[1], a[2], a[3], t>>, target |-> "any",
                   out |-> f(a[1], a[2], a[3], t)]
    /\ UNCHANGED <<variant, M, total_size, message, pad_at, fed, stream_len, sha1, ret, op,
                   out, digests>>

CallK ==
    /\ variant = "lib_tests"
    /\ \E t \in 0..MaxT :
          call' = [fn |-> "K", args |-> <<t>>, target |-> "any", out |-> K(t)]
    /\ UNCHANGED <<variant, M, total_size, message, pad_at, fed, stream_len, sha1, ret, op,
                   out, digests>>

\* ---- mod tests of src/sha1sum/src/main.rs: a direct call of pad_block
CallPadBlock ==
    /\ variant = "sha1sum_tests"
    /\ \E little_endian \in BOOLEAN :
          call' = [fn |-> "pad_block", args |-> <<M>>,
                   target |-> IF little_endian THEN "little-endian" ELSE "big-endian",
                   out |-> pad_block(M, little_endian)]
    /\ UNCHANGED <<variant, M, total_size, message, pad_at, fed, stream_len, sha1, ret, op,
                   out, digests>>

Next ==
    \/ PadMessage
    \/ Ingest
    \/ Digest
    \/ MainIngest
    \/ MainDigest
    \/ SumIngest
    \/ SumDigest
    \/ CallF
    \/ CallK
    \/ CallPadBlock

Spec == Init /\ [][Next]_vars

\* ------------------------------------------------------------ the padding rule
\* The padded length of a message of L bytes: the smallest multiple of 64 that
\* is at least L + 9.
StdLen(L) == 64 * ((L + 9 + 63) \div 64)

\* m || 0x80 || zeros || big-endian 64-bit (8 * Len(m)).
StdPad(m) ==
    [i \in 1..StdLen(Len(m)) |->
        IF i <= Len(m) THEN m[i]
        ELSE IF i = Len(m) + 1 THEN 128
        ELSE IF i <= StdLen(Len(m)) - 8 THEN 0
        ELSE to_be_bytes(Times8(U64(Len(m))).limbs)[i - (StdLen(Len(m)) - 8)]]

\* The compression function folded over the 64-byte blocks k, k+1, ... of buf.
RECURSIVE FoldBlocks(_, _, _)
FoldNext(r, buf, k) == IF r.ret = "Ok" THEN FoldBlocks(r.self, buf, k + 1) ELSE r.self

FoldBlocks(self, buf, k) ==
    IF 64 * (k + 1) > Len(buf) THEN self
    ELSE FoldNext(ingest_chunk(self, SubSeq(buf, 64 * k + 1, 64 * k + 64)), buf, k)

\* ------------------------------------------------------------ states of interest
\* lib.rs: the buffer was padded with total_size = Len(M) ...
LengthGiven == total_size = U64(Len(M))
\* ... before anything was compressed, so that it was the whole message M,
PaddedWhole == variant = "lib" /\ pad_at = 0 /\ LengthGiven
\* pad_message has just returned Ok on the whole message,
JustPadded == PaddedWhole /\ op = "pad_message" /\ ret = "Ok"
\* every byte of the padded buffer went through ingest, which returned Ok,
AllIngested == variant = "lib" /\ pad_at >= 0 /\ ret = "Ok" /\ message = <<>>
                  /\ op \in {"ingest", "digest"}
\* and the last ingest call was the only one that compressed anything.
SingleIngest == stream_len = Len(fed)

\* ------------------------------------------------------------ claims
\* C1: pad_message(M, L) then ingest(padded M) on a fresh engine gives the
\* FIPS 180 digest of M, for every length L.
C1_StandardDigest ==
    (PaddedWhole /\ AllIngested /\ SingleIngest)
        => digest(sha1) = digest(FoldBlocks(new, StdPad(M), 0))

\* C2: the known vectors: the empty message, "test", "abc" and the 91-byte
\* message of ingest_works_3 give their published digests, in lib.rs
\* (pad_message then ingest) and in src/src/main.rs (ingest alone).
Vector(m) ==
    CASE m = Empty -> "da39a3ee5e6b4b0d3255bfef95601890afd80709"
      [] m = Test  -> "a94a8fe5ccb19ba61c4c0873d391e987982fbbd3"
      [] m = Abc   -> "a9993e364706816aba3e25717850c26c9cd0d89d"
      [] m = Long  -> "59638ef75030bf4632b9b58d2eb41e20fa2b1f61"

C2_KnownVectors ==
    M \in {Empty, Test, Abc, Long} =>
        /\ (PaddedWhole /\ AllIngested /\ SingleIngest) => digest(sha1) = Vector(M)
        /\ (variant = "main" /\ op # "new" /\ ret = "Ok") => main_digest(sha1) = Vector(M)

C2_Witness ==
    /\ PaddedWhole /\ AllIngested /\ SingleIngest
    /\ M = Long /\ out = "59638ef75030bf4632b9b58d2eb41e20fa2b1f61"

\* C3: in src/sha1sum/src/main.rs, new() then ingest(b"test") makes digest()
\* return 4e1243bd22c66e76c2ba9eddc1f91394e57f9f83.
C3_Sha1sumTestDigest ==
    (variant = "sha1sum" /\ M = Test /\ op = "digest")
        => out = "4e1243bd22c66e76c2ba9eddc1f91394e57f9f83"

\* C4: after pad_message the buffer length is the smallest multiple of 64 that
\* is at least L + 9 (55 bytes pad to one block, 56 bytes to two).
C4_PaddedLength == JustPadded => Len(message) = StdLen(Len(M))

\* C5: after pad_message the byte at index L is 0x80, the bytes from L + 1 up to
\* the last 8 are zero and the last 8 bytes are the big-endian encoding of 8 * L.
C5_PaddedContent ==
    JustPadded =>
        /\ message[Len(M) + 1] = 128
        /\ \A i \in (Len(M) + 2)..(Len(message) - 8) : message[i] = 0
        /\ SubSeq(message, Len(message) - 7, Len(message))
              = to_be_bytes(Times8(U64(Len(M))).limbs)

\* C6: pad_message only appends: the first L bytes of the padded buffer are the
\* original message.
C6_PadOnlyAppends == JustPadded => SubSeq(message, 1, Len(M)) = M

\* C7: ingest returns an error whenever the length of its buffer is not a
\* multiple of 64, and then has compressed nothing but whole blocks of input.
C7_IngestRejectsPartial ==
    (variant = "lib" /\ op = "ingest" /\ stream_len % 64 # 0)
        => /\ ret = "Err"
           /\ Len(fed) % 64 = 0
           /\ sha1 = FoldBlocks(new, fed, 0)

C7_Witness ==
    /\ variant = "lib" /\ op = "ingest" /\ stream_len % 64 # 0 /\ stream_len > 64
    /\ ret = "Err"

\* C8: pad_message returns an error value whenever total_size * 8 does not fit
\* a u64 (total_size >= 2^61).
C8_OversizeIsError ==
    (variant = "lib" /\ op = "pad_message" /\ Times8(total_size).overflow)
        => ret = "Err"

\* C9: ingesting a buffer in consecutive pieces of whole blocks leaves the five
\* state words that one ingest of the whole buffer leaves on a fresh engine.
C9_ChunkingIndependence ==
    (variant = "lib" /\ op = "ingest" /\ ret = "Ok")
        => /\ ingest(new, fed).ret = "Ok"
           /\ sha1 = ingest(new, fed).self

C9_Witness ==
    /\ AllIngested /\ PaddedWhole /\ op = "ingest"
    /\ Len(fed) = 192 /\ stream_len = 64

\* C10: ingest(P), pad_message(T, L), ingest(padded T) gives the digest of
\* pad_message(M, L) and one ingest on a fresh engine, for M = P || T with
\* Len(P) a multiple of 64; the length field encodes 8 * total_size.
C10_StreamingTotalLength ==
    /\ (AllIngested /\ LengthGiven /\ op = "ingest")
          => sha1 = ingest(new, pad_message(M, U64(Len(M)), TRUE).message).self
    /\ (variant = "lib" /\ op = "pad_message" /\ ret = "Ok" /\ LengthGiven)
          => SubSeq(message, Len(message) - 7, Len(message))
               = to_be_bytes(Times8(U64(Len(M))).limbs)

C10_Witness ==
    /\ AllIngested /\ LengthGiven /\ op = "ingest"
    /\ pad_at = 64 /\ Len(M) > 64 /\ Len(M) % 64 # 0

\* ------------------------------------------------------------ the digest format
\* The characters [0-9a-f], and hex digit i (0 = most significant, 7 = least)
\* of a u32.
LowerHex == {"0", "1", "2", "3", "4", "5", "6", "7", "8", "9", "a", "b", "c", "d", "e", "f"}
Nibble(w, i) == (w[(i \div 4) + 1] \div (16 ^ (3 - (i % 4)))) % 16
NibbleChar(n) ==
    CASE n = 0 -> "0" [] n = 1 -> "1" [] n = 2 -> "2" [] n = 3 -> "3"
      [] n = 4 -> "4" [] n = 5 -> "5" [] n = 6 -> "6" [] n = 7 -> "7"
      [] n = 8 -> "8" [] n = 9 -> "9" [] n = 10 -> "a" [] n = 11 -> "b"
      [] n = 12 -> "c" [] n = 13 -> "d" [] n = 14 -> "e" [] n = 15 -> "f"

\* The 40 characters of h0 h1 h2 h3 h4, eight per word, and their concatenation.
FortyChars(self) ==
    [i \in 1..40 |->
        NibbleChar(Nibble(<<self.h0, self.h1, self.h2, self.h3, self.h4>>[((i - 1) \div 8) + 1],
                          (i - 1) % 8))]

RECURSIVE Concat(_, _)
Concat(chars, i) == IF i > Len(chars) THEN "" ELSE chars[i] \o Concat(chars, i + 1)

\* C11: in every hash state digest() returns exactly 40 characters, all in
\* [0-9a-f]: h0, h1, h2, h3, h4 in that order, each as 8 zero-padded lowercase
\* hex digits.
C11_DigestFormat ==
    (variant = "lib" /\ op = "digest")
        => /\ Len(out) = 40
           /\ \A i \in 1..40 : FortyChars(sha1)[i] \in LowerHex
           /\ out = Concat(FortyChars(sha1), 1)

\* digest() of a state left by a compression, with a word that needs the padding.
C11_Witness ==
    /\ variant = "lib" /\ op = "digest" /\ Len(fed) >= 64 /\ Len(out) = 40
    /\ \E w \in {sha1.h0, sha1.h1, sha1.h2, sha1.h3, sha1.h4} : w[1] < 4096

\* C12: digest() is read-only and idempotent: it leaves h0..h4 unchanged and
\* returns the same string every time it is called, and an ingest after it
\* leaves the state that one ingest of all the bytes compressed so far leaves
\* on an engine whose digest() was never called.
C12_DigestReadOnly ==
    [][/\ (variant = "lib" /\ op' = "digest")
            => /\ sha1' = sha1
               /\ out' = digest(sha1)
               /\ (op = "digest" => out' = out)
       /\ (variant = "lib" /\ op = "digest" /\ op' = "ingest")
            => sha1' = ingest(new, fed').self]_vars

\* digest() called twice in a row between two ingest calls.
C12_Witness ==
    /\ variant = "lib" /\ op = "digest" /\ digests = 2
    /\ Len(fed) >= 64 /\ Len(message) >= 64 /\ pad_at >= 0

\* C13: ingest on a buffer of 64 * k bytes returns Ok after exactly k
\* compressions, of the blocks at offsets 0, 64, ... in increasing order, each
\* from the state the previous one left; nothing else changes the hash state,
\* and k = 0 leaves it unchanged.
C13_IngestInOrder ==
    [][(variant = "lib" /\ op' = "ingest" /\ stream_len' % 64 = 0)
          => /\ ret' = "Ok"
             /\ fed' = fed \o SubSeq(message, 1, stream_len')
             /\ sha1' = FoldBlocks(sha1, SubSeq(message, 1, stream_len'), 0)
             /\ (stream_len' = 0 => sha1' = sha1)]_vars

\* One ingest call that compressed two blocks.
C13_Witness ==
    /\ variant = "lib" /\ op = "ingest" /\ ret = "Ok"
    /\ stream_len = 128 /\ Len(fed) = 128

\* ------------------------------------------------------------ the message schedule
\* The block that the last ingest call compressed last.
LastBlock == SubSeq(fed, Len(fed) - 63, Len(fed))

\* Ws is the schedule of FIPS 180 for the block: 80 words, the first sixteen the
\* big-endian words of the block, the others given by the recurrence.
IsSchedule(Ws, block) ==
    /\ Len(Ws) = 80
    /\ \A i \in 0..15 :
          Ws[i + 1] = <<256 * block[4 * i + 1] + block[4 * i + 2],
                        256 * block[4 * i + 3] + block[4 * i + 4]>>
    /\ \A t \in 16..79 :
          Ws[t + 1] = rotl_u32(BitXor(BitXor(BitXor(Ws[t - 3 + 1], Ws[t - 8 + 1]),
                                            Ws[t - 14 + 1]), Ws[t - 16 + 1]), 1)

\* Words 16 and 79 of the array expected by prepare_message_schedule_works_2.
IsAbcSchedule(Ws) == Hex8(Ws[17]) = "c2c4c700" /\ Hex8(Ws[80]) = "822e0879"

\* C14: for every 64-byte block prepare_message_schedule returns 80 words: word
\* i < 16 is the big-endian value of bytes 4i..4i+3 and word t >= 16 is
\* rotl32(W[t-3] xor W[t-8] xor W[t-14] xor W[t-16], 1); it is a function of
\* the block alone.
C14_MessageSchedule ==
    (variant = "lib" /\ op = "ingest" /\ Len(fed) >= 64)
        => /\ IsSchedule(prepare_message_schedule(LastBlock), LastBlock)
           /\ (M = Abc /\ PaddedWhole)
                 => IsAbcSchedule(prepare_message_schedule(LastBlock))

\* The padded block of "abc" has been compressed.
C14_Witness ==
    /\ variant = "lib" /\ op = "ingest" /\ ret = "Ok" /\ M = Abc /\ PaddedWhole
    /\ Len(fed) = 64 /\ LastBlock[4] = 128 /\ LastBlock[64] = 24

\* ------------------------------------------------------------ the compression function
\* The sum modulo 2^32 of the words of ws (at most five), added all at once.
RECURSIVE SumHalf(_, _, _)
SumHalf(ws, half, i) == IF i > Len(ws) THEN 0 ELSE ws[i][half] + SumHalf(ws, half, i + 1)
SumMod32(ws) ==
    <<(SumHalf(ws, 1, 1) + (SumHalf(ws, 2, 1) \div 65536)) % 65536,
      SumHalf(ws, 2, 1) % 65536>>

\* Step t on the working variables st = <<a, b, c, d, e>> as FIPS 180 writes it.
RefStep(st, t, Ws) ==
    <<SumMod32(<<rotl_u32(st[1], 5), f(st[2], st[3], st[4], t), st[5], K(t), Ws[t + 1]>>),
      st[1], rotl_u32(st[2], 30), st[3], st[4]>>

\* Steps t, ..., stop - 1 in increasing order.
RECURSIVE RefRounds(_, _, _, _)
RefRounds(t, stop, st, Ws) ==
    IF t = stop \/ Len(st) # 5 THEN st
    ELSE RefRounds(t + 1, stop, RefStep(st, t, Ws), Ws)

RefAdd(self, r) ==
    [h0 |-> SumMod32(<<self.h0, r[1]>>), h1 |-> SumMod32(<<self.h1, r[2]>>),
     h2 |-> SumMod32(<<self.h2, r[3]>>), h3 |-> SumMod32(<<self.h3, r[4]>>),
     h4 |-> SumMod32(<<self.h4, r[5]>>)]

\* The 80 steps from a, b, c, d, e = h0..h4, then the addition into h0..h4.
RefCompress(self, Ws) ==
    RefAdd(self,
           RefRounds(60, 80, RefRounds(40, 60, RefRounds(20, 40, RefRounds(0, 20,
               <<self.h0, self.h1, self.h2, self.h3, self.h4>>, Ws), Ws), Ws), Ws))

\* C15: the compression of one block runs the steps t = 0..79 in increasing
\* order, tmp = rotl32(a,5) + f(b,c,d,t) + e + K(t) + W[t] modulo 2^32, then
\* e=d, d=c, c=rotl32(b,30), b=a, a=tmp, and adds a..e into h0..h4 modulo 2^32;
\* no addition can panic on overflow.
C15_CompressionStep ==
    [][/\ (variant = "lib" /\ op' = "ingest") => ret' # "panic"
       /\ (variant = "lib" /\ op' = "ingest" /\ stream_len' = 64)
            => /\ ret' = "Ok"
               /\ sha1' = RefCompress(sha1, prepare_message_schedule(SubSeq(message, 1, 64)))
      ]_vars

\* One block compressed from the initial state, where h0 + a wrapped around.
C15_Witness ==
    /\ variant = "lib" /\ op = "ingest" /\ ret = "Ok" /\ stream_len = 64 /\ Len(fed) = 64
    /\ sha1.h0[1] < new.h0[1]

\* ------------------------------------------------------------ f and K
\* The constant of FIPS 180 for step t < 80, as eight hex digits.
KHex(t) ==
    IF t <= 19 THEN "5a827999" ELSE IF t <= 39 THEN "6ed9eba1"
    ELSE IF t <= 59 THEN "8f1bbcdc" ELSE "ca62c1d6"

\* The results that ch_works, parity_works and maj_works expect for (100, 200, 300).
TestsAgree(x, y, z) ==
    (x = <<0, 100>> /\ y = <<0, 200>> /\ z = <<0, 300>>)
        => ch(x, y, z) = <<0, 328>> /\ parity(x, y, z) = <<0, 384>> /\ maj(x, y, z) = <<0, 108>>

FReturns(x, y, z, t, result) ==
    /\ t \in 0..19  => result = ch(x, y, z)
    /\ t \in 20..39 => result = parity(x, y, z)
    /\ t \in 40..59 => result = maj(x, y, z)
    /\ t \in 60..79 => result = parity(x, y, z)
    /\ t >= 80 => result = panic
    /\ TestsAgree(x, y, z)

KReturns(t, result) ==
    /\ t \in 0..79 => (result # panic /\ Hex8(result) = KHex(t))
    /\ t >= 80 => result = panic

\* C16: K(t) is 0x5a827999, 0x6ed9eba1, 0x8f1bbcdc, 0xca62c1d6 on 0..19, 20..39,
\* 40..59, 60..79; f(x,y,z,t) is ch, parity, maj, parity on the same ranges;
\* for t >= 80 both panic.
C16_RoundFunction ==
    /\ call.fn = "f" => FReturns(call.args[1], call.args[2], call.args[3], call.args[4],
                                 call.out)
    /\ call.fn = "K" => KReturns(call.args[1], call.out)

\* f called with t = 80, as in f_works_5.
C16_Witness ==
    /\ variant = "lib_tests" /\ call.fn = "f" /\ call.args[4] = 80 /\ call.out = panic

\* ------------------------------------------------------------ errors and panics
\* C17: ingest of lib.rs on a buffer of 64 * k + r bytes, 0 < r < 64, returns
\* its error after the first k blocks were compressed into the hash state: the
\* state is not rolled back and the last r bytes are never compressed.
C17_PartialEffect ==
    [][(variant = "lib" /\ op' = "ingest" /\ stream_len' % 64 # 0)
          => /\ ret' = "Err"
             /\ fed' = fed \o SubSeq(message, 1, 64 * (stream_len' \div 64))
             /\ sha1' = FoldBlocks(sha1, SubSeq(message, 1, 64 * (stream_len' \div 64)), 0)
             /\ (stream_len' > 64 => sha1' # sha1)]_vars

\* An error returned after two blocks went into the state.
C17_Witness ==
    /\ variant = "lib" /\ op = "ingest" /\ ret = "Err"
    /\ Len(fed) = 128 /\ sha1 # new /\ sha1 = FoldBlocks(new, SubSeq(M, 1, 128), 0)

\* C18: through new, pad_message, ingest and digest of lib.rs, f and K are
\* only called with t in 0..79 and the schedule and the buffers are only
\* indexed inside their bounds: no ingest ends in a panic, and pad_message
\* writes 0x80 and the length field inside the resized buffer.
C18_NoPanicBranch ==
    /\ (variant = "lib" /\ op = "ingest") => ret \in {"Ok", "Err"}
    /\ (variant = "lib" /\ op = "pad_message" /\ ret = "Ok")
          => /\ Len(M) - pad_at < Len(message)
             /\ Len(message) >= 8

\* One ingest call that ran the 80 steps three times.
C18_Witness ==
    /\ variant = "lib" /\ op = "ingest" /\ ret = "Ok"
    /\ stream_len = 192 /\ Len(fed) = 192

\* ------------------------------------------------------------ the variants
\* The five state words of an engine of lib.rs and of main.rs.
LibWords(self)  == <<self.h0, self.h1, self.h2, self.h3, self.h4>>
MainWords(self) == <<self.part0, self.part1, self.part2, self.part3, self.part4>>

\* What pad_message(M, len(M)) followed by ingest of lib.rs returns on a fresh engine.
LibPipeline(m) == ingest(new, pad_message(m, U64(Len(m)), TRUE).message)
LibAgrees(r) == r.ret = "Ok" /\ LibWords(r.self) = MainWords(sha1)

\* C19: for every message M, ingest(M) of src/src/main.rs leaves a fresh
\* engine with the five state words that pad_message(M, len(M)) followed by
\* ingest of src/src/lib.rs leaves on a fresh engine.
C19_VariantEquivalence ==
    (variant = "main" /\ op = "ingest") => (ret = "Ok" /\ LibAgrees(LibPipeline(M)))

\* main.rs has ingested a message of 120 bytes, padded to two blocks.
C19_Witness ==
    /\ variant = "main" /\ op = "ingest" /\ ret = "Ok"
    /\ Len(M) = 120 /\ Len(fed) = 128 /\ sha1 # main_new

\* ------------------------------------------------------------ pad_block
\* The 64 bytes the claim describes for a block b: b, 0x80 at index len, zeros,
\* and len in the last byte.
PaddedBlock(b) ==
    [j \in 1..64 |-> IF j <= Len(b) THEN b[j]
                     ELSE IF j = Len(b) + 1 THEN 128
                     ELSE IF j = 64 THEN Len(b) ELSE 0]

PadBlockReturns(b, r) ==
    /\ Len(b) <= 64 => (r.ret = "Ok" /\ r.padded_msg = PaddedBlock(b))
    /\ Len(b) > 64
         => /\ r.ret = "panic"
            /\ r.msg = "block passed to pad_block() must be <= 64B but is "
                        \o ToString(Len(b)) \o "B"

\* C20: pad_block of src/sha1sum/src/main.rs accepts every block of at most 64
\* bytes and returns the block, 0x80 at index len, zeros, and the byte length
\* at index 63; it panics only for a longer block, with the message "block
\* passed to pad_block() must be <= 64B but is <len>B".  (Stated for the
\* little-endian targets, where to_ne_bytes puts the length's low byte last.)
C20_PadBlock ==
    (call.fn = "pad_block" /\ call.target = "little-endian")
        => PadBlockReturns(call.args[1], call.out)
====
